---- MODULE Spec2Model ----
(***************************************************************************)
(* The Leafpak container reader/writer and the LZSS decoder of             *)
(* wa_extract.py.                                                          *)
(*                                                                         *)
(* Bytes are integers 0..255, a file is the sequence of its bytes, a       *)
(* Python str is the sequence of its code points.  File positions and      *)
(* Python indices are 0-based; the sequences here are 1-based, so byte k   *)
(* of a file f is f[k+1].                                                  *)
(***************************************************************************)
EXTENDS Integers, Sequences, FiniteSets, TLC

VARIABLES
  pakfile,      \* the bytes of the file named by Leafpak.pakfile
  _toc,         \* Leafpak._toc: filename -> [size, offset, encoded]
  outdir,       \* the output directory: filename -> bytes, for the files that exist
  pc,           \* position of the running call: "idle" between calls
  op,           \* the last (or running) call: "none", "toc", "create", "extract"
  err,          \* the exception the last call raised, "none" when it returned
  filename,     \* extract_file's filename argument
  input_files,  \* create_file's input directory: filename -> bytes
  toc_parsed,   \* how the last toc access got its mapping: "" (no access yet), "parsed", "cached"
  toc_earlier,  \* whether a toc access before the last one had parsed the file
  toc_records,  \* the TOC records the last parse read: <<[pos, filename, entry], ...>>
  payload_reads,\* the reads extract_file's handle f served in the last call: <<[pos, count], ...>>
  fpos,         \* Lzss.decode: position of the stream m_input
  packed_size, unpacked_size,
  m_output,     \* Lzss.decode: the output bytearray (bytearray(0) before it is allocated)
  allocated,    \* length of the bytearray Lzss.decode allocated in the last call, -1 if none
  buf,          \* Lzss.decode: the LzssBuffer [d, d_size, d_pos]; d = <<>> is None
  dst, remaining, ctl, bit,
  count, offset, repititions,
  tok_dst,      \* dst when the token being processed was read
  tok_n,        \* the repetition count of the token being processed
  tok_fed,      \* output indices fed to the History buffer for the token being processed
  decoded       \* how Lzss.decode ended in the last call, [how, at]: how is "" (not run,
                \* or running), "returned" or the error; at is the index an IndexError
                \* was raised for (-1 otherwise)

vars == <<pakfile, _toc, outdir, pc, op, err, filename, input_files, toc_parsed,
          toc_earlier, toc_records, payload_reads, fpos,
          packed_size, unpacked_size, m_output, allocated, buf, dst, remaining,
          ctl, bit, count, offset, repititions, tok_dst, tok_n, tok_fed, decoded>>

---------------------------------------------------------------------------
(* Bounds of the model *)

\* largest number of files in a create_file input directory
MaxFiles == 2
\* largest size of an input file
MaxFileLen == 2
\* largest number of TOC records written in an input container
MaxRecords == 2
\* largest length of a compressed body in an input payload
MaxBody == 4
\* largest unpacked_size declared by a generated payload
MaxUnpacked == 5

---------------------------------------------------------------------------
(* Bytes and files *)

Min(a, b) == IF a < b THEN a ELSE b
Max(a, b) == IF a > b THEN a ELSE b

\* f.read(count) at position pos: the bytes that are there, fewer at end of file
read(f, pos, n) == SubSeq(f, pos + 1, Min(pos + n, Len(f)))

\* the position of f after f.read(count) at position pos
tell(f, pos, n) == IF pos >= Len(f) THEN pos ELSE Min(pos + n, Len(f))

\* f.write(bytes) at position pos: a gap after the old end is zero-filled;
\* writing nothing leaves the file as it is
write(f, pos, bs) ==
  IF bs = <<>> THEN f
  ELSE [i \in 1..Max(Len(f), pos + Len(bs)) |->
          IF i > pos /\ i <= pos + Len(bs) THEN bs[i - pos]
          ELSE IF i <= Len(f) THEN f[i] ELSE 0]

RECURSIVE from_bytes(_)
\* int.from_bytes(bytes, "little"); the empty string gives 0
from_bytes(bs) == IF bs = <<>> THEN 0 ELSE Head(bs) + 256 * from_bytes(Tail(bs))

\* _rb(f, count): f.read(count) as a little-endian integer
_rb(f, pos, n) == from_bytes(read(f, pos, n))

RECURSIVE to_bytes(_, _)
\* n.to_bytes(length, "little"), for an n that fits
to_bytes(n, length) ==
  IF length = 0 THEN <<>> ELSE <<n % 256>> \o to_bytes(n \div 256, length - 1)

\* whether n fits 4 bytes: n.to_bytes(4, ...) raises OverflowError otherwise
fits4(n) == n \div 16777216 < 256

RECURSIVE rstrip(_)
\* str.rstrip("\x00")
rstrip(s) ==
  IF s # <<>> /\ s[Len(s)] = 0 THEN rstrip(SubSeq(s, 1, Len(s) - 1)) ELSE s

\* bytes.decode() of ASCII bytes: one code point per byte
decode_str(bs) == [i \in 1..Len(bs) |-> bs[i]]

\* whether str.encode("ascii") succeeds
is_ascii(s) == \A i \in 1..Len(s) : s[i] < 128

\* str.encode("ascii") of an ASCII string: one byte per code point
encode_ascii(s) == [i \in 1..Len(s) |-> s[i]]

\* bytes.ljust(width, b"\x00"): pads a shorter string, never cuts a longer one
ljust(bs, width) ==
  IF Len(bs) >= width THEN bs ELSE bs \o [i \in 1..(width - Len(bs)) |-> 0]

RECURSIVE str_less(_, _)
\* Python's str "<": lexicographic by code point
str_less(a, b) ==
  IF b = <<>> THEN FALSE
  ELSE IF a = <<>> THEN TRUE
  ELSE IF Head(a) # Head(b) THEN Head(a) < Head(b)
  ELSE str_less(Tail(a), Tail(b))

RECURSIVE sorted_desc(_)
\* the names in descending order: what create_file would walk without the sort's order
sorted_desc(names) ==
  IF names = {} THEN <<>>
  ELSE LET most == CHOOSE n \in names : \A m \in names \ {n} : str_less(m, n)
       IN <<most>> \o sorted_desc(names \ {most})

RECURSIVE sorted(_)
\* sorted(input_files): the names of a directory, ascending
sorted(names) ==
  IF names = {} THEN <<>>
  ELSE LET least == CHOOSE n \in names : \A m \in names \ {n} : str_less(n, m)
       IN <<least>> \o sorted(names \ {least})

\* d[k] = v on a dict
dict_set(d, k, v) == [x \in DOMAIN d \cup {k} |-> IF x = k THEN v ELSE d[x]]

\* {}
empty_dict == [x \in {} |-> 0]

---------------------------------------------------------------------------
(* LzssBuffer *)

d_capacity == 2048

\* LzssBuffer(): d is None
LzssBuffer == [d |-> <<>>, d_size |-> 0, d_pos |-> 0]

\* LzssBuffer.input: the first byte ever written fills the whole ring
LzssBuffer_input(b, input) ==
  LET d0 == IF b.d = <<>> THEN [i \in 1..d_capacity |-> input] ELSE b.d
  IN [d      |-> [d0 EXCEPT ![b.d_pos + 1] = input],
      d_pos  |-> (b.d_pos + 1) % d_capacity,
      d_size |-> IF b.d_size < d_capacity THEN b.d_size + 1 ELSE b.d_size]

---------------------------------------------------------------------------
(* Leafpak: the table of contents *)

entry_offset == 4
name_size == 16
attr_size == 4
entry_size == name_size + (attr_size * 3)

\* Leafpak._toc_entry with f at position pos: the record and f's new position
_toc_entry(f, pos) ==
  LET p1 == tell(f, pos, 16)
      p2 == tell(f, p1, 4)
      p3 == tell(f, p2, 4)
  IN [pos      |-> pos,
      filename |-> rstrip(decode_str(read(f, pos, 16))),
      entry    |-> [size    |-> _rb(f, p1, 4),
                    encoded |-> _rb(f, p2, 4) # 0,
                    offset  |-> _rb(f, p3, 4)],
      next     |-> tell(f, p3, 4)]

\* the first value of the loop variable of "for i in range(1, file_count)"
toc_first == 1

RECURSIVE toc_loop(_, _, _, _, _)
\* the loop of Leafpak.toc from iteration i on: [toc, records]
toc_loop(f, pos, i, file_count, acc) ==
  IF i >= file_count THEN acc
  ELSE LET e == _toc_entry(f, pos)
       IN toc_loop(f, e.next, i + 1, file_count,
                   [toc     |-> dict_set(acc.toc, e.filename, e.entry),
                    records |-> Append(acc.records,
                                       [pos |-> e.pos, filename |-> e.filename,
                                        entry |-> e.entry])])

\* whether Leafpak.toc takes the cached mapping t as it is ("if not self._toc" is false)
toc_cached(t) == DOMAIN t # {}

\* the parse of Leafpak.toc: open, read the count, skip 2 bytes, read the records
toc_parse(f, t) ==
  toc_loop(f, tell(f, 0, 2) + 2, toc_first, _rb(f, 0, 2),
           [toc |-> t, records |-> <<>>])

\* one access of the property Leafpak.toc, on the cached mapping t
toc_access(f, t) ==
  IF toc_cached(t) THEN [toc |-> t, records |-> <<>>, how |-> "cached"]
  ELSE LET r == toc_parse(f, t)
       IN [toc |-> r.toc, records |-> r.records, how |-> "parsed"]

---------------------------------------------------------------------------
(* Leafpak.create_file *)

\* the byte width of the entry count create_file writes
toc_count_size == 4

RECURSIVE create_loop(_, _, _, _, _)
\* the loop of create_file from entry c on, on the file f: [f, err]
create_loop(f, names, dir, c, data_pos) ==
  IF c = Len(names) THEN [f |-> f, err |-> "none"]
  ELSE
    LET name      == names[c + 1]
        size      == Len(dir[name])
        entry_pos == entry_offset + (entry_size * c)
        encoding  == 0
    IN IF ~is_ascii(name) THEN [f |-> f, err |-> "UnicodeEncodeError"]
       ELSE
         LET nb == ljust(encode_ascii(name), 16)
             f1 == write(f, entry_pos, nb)
             p1 == entry_pos + Len(nb)
         IN IF ~fits4(size) THEN [f |-> f1, err |-> "OverflowError"]
            ELSE
              LET f2 == write(f1, p1, to_bytes(size, 4))
                  f3 == write(f2, p1 + 4, to_bytes(encoding, 4))
              IN IF ~fits4(data_pos) THEN [f |-> f3, err |-> "OverflowError"]
                 ELSE
                   LET f4 == write(f3, p1 + 8, to_bytes(data_pos, 4))
                       f5 == write(f4, data_pos, dir[name])
                   IN create_loop(f5, names, dir, c + 1, data_pos + size)

\* the file open(self.pakfile, "wb") gives: whatever was there is gone
open_wb(old) == <<>>

\* create_file on the directory dir (filename -> bytes), over the old file: [f, err]
create_file_run(old, dir) ==
  LET names       == sorted(DOMAIN dir)
      data_offset == (Len(names) * entry_size) + entry_offset
      toc_count   == Len(names) + 1
      f0          == open_wb(old)
      f1          == write(f0, 0, to_bytes(toc_count, toc_count_size))
  IN create_loop(f1, names, dir, 0, data_offset)

---------------------------------------------------------------------------
(* Lzss.decode, one step per loop iteration *)

\* the safety ceiling on unpacked_size
ceiling == 1000000

\* bytearray(n): n zero bytes, kept as the length and the bytes stored since
bytearray(n) == [size |-> n, stored |-> empty_dict]

\* a[i], for an index i within the bytearray a
getitem(a, i) == IF i \in DOMAIN a.stored THEN a.stored[i] ELSE 0

\* a[i] = v, for an index i within the bytearray a
setitem(a, i, v) == [a EXCEPT !.stored = dict_set(a.stored, i, v)]

\* the bytes of the bytearray a
bytes(a) == [i \in 1..a.size |-> getitem(a, i - 1)]

\* 0 != (ctl & bit), for bit a power of two
bit_set(c, b) == (c \div b) % 2 = 1

\* whether the copy loop breaks before the write at dst
copy_guard(d, size) == d > size

\* the index of the output byte the feed loop reads when reps feeds are left
feed_index(d, reps) == d - reps

\* the locals of a decode that is not running
no_locals ==
  /\ fpos' = 0 /\ packed_size' = 0 /\ unpacked_size' = 0 /\ m_output' = bytearray(0)
  /\ buf' = LzssBuffer /\ dst' = 0 /\ remaining' = 0 /\ ctl' = 0 /\ bit' = 0
  /\ count' = 0 /\ offset' = 0 /\ repititions' = 0 /\ tok_dst' = 0 /\ tok_n' = 0 /\ tok_fed' = <<>>

\* the call ends: extract_file returns, or the exception e leaves it
finish(e, how, at) ==
  /\ pc' = "idle" /\ err' = e /\ decoded' = [how |-> how, at |-> at]
  /\ no_locals

\* what stays as it is while Lzss.decode runs
call_unchanged ==
  UNCHANGED <<pakfile, _toc, op, filename, input_files, toc_parsed, toc_earlier,
              toc_records>>

\* lines 120-126: seek, read the two sizes, allocate the output
decode_header ==
  /\ pc = "decode"
  /\ LET p1 == tell(pakfile, fpos, 4)
     IN /\ packed_size' = _rb(pakfile, fpos, 4)
        /\ unpacked_size' = _rb(pakfile, p1, 4)
        /\ fpos' = tell(pakfile, p1, 4)
        /\ payload_reads' = payload_reads \o
                              <<[pos |-> fpos, count |-> 4], [pos |-> p1, count |-> 4]>>
  /\ m_output' = bytearray(unpacked_size')
  /\ allocated' = unpacked_size'
  /\ pc' = "check"
  /\ call_unchanged
  /\ UNCHANGED <<outdir, err, decoded, buf, dst, remaining, ctl, bit, count, offset,
                 repititions, tok_dst, tok_n, tok_fed>>

\* lines 128-139: the two size checks, then the loop's initial state
decode_check ==
  /\ pc = "check"
  /\ call_unchanged
  /\ UNCHANGED <<outdir, payload_reads, allocated>>
  /\ IF unpacked_size = 0 \/ packed_size <= 8
       THEN finish("InvalidPayload", "InvalidPayload", -1)
     ELSE IF unpacked_size > ceiling
       THEN finish("OversizedPayload", "OversizedPayload", -1)
     ELSE /\ buf' = LzssBuffer
          /\ dst' = 0
          /\ remaining' = packed_size - 8
          /\ pc' = "outer"
          /\ UNCHANGED <<err, decoded, fpos, packed_size, unpacked_size, m_output, ctl,
                         bit, count, offset, repititions, tok_dst, tok_n, tok_fed>>

\* lines 141-144 and 179: read a control byte, or return the output
decode_outer ==
  /\ pc = "outer"
  /\ call_unchanged
  /\ UNCHANGED <<outdir, err, decoded, allocated, packed_size, unpacked_size, m_output,
                 buf, dst, count, offset, repititions, tok_dst, tok_n, tok_fed>>
  /\ IF remaining > 0
       THEN /\ ctl' = _rb(pakfile, fpos, 1)
            /\ fpos' = tell(pakfile, fpos, 1)
            /\ payload_reads' = Append(payload_reads, [pos |-> fpos, count |-> 1])
            /\ remaining' = remaining - 1
            /\ bit' = 1
            /\ pc' = "inner"
       ELSE /\ pc' = "write"
            /\ UNCHANGED <<ctl, fpos, payload_reads, remaining, bit>>

\* lines 145-164: one bit of the control byte: a literal, or the read of a token
decode_inner ==
  /\ pc = "inner"
  /\ call_unchanged
  /\ UNCHANGED <<outdir, allocated>>
  /\ IF remaining > 0 /\ bit # 256
       THEN IF bit_set(ctl, bit)
              THEN LET b == _rb(pakfile, fpos, 1)
                   IN IF dst >= m_output.size
                        THEN /\ finish("IndexError", "IndexError", dst)
                             /\ payload_reads' =
                                  Append(payload_reads, [pos |-> fpos, count |-> 1])
                        ELSE /\ fpos' = tell(pakfile, fpos, 1)
                             /\ payload_reads' =
                                  Append(payload_reads, [pos |-> fpos, count |-> 1])
                             /\ remaining' = remaining - 1
                             /\ m_output' = setitem(m_output, dst, b)
                             /\ dst' = dst + 1
                             /\ buf' = LzssBuffer_input(buf, b)
                             /\ bit' = bit * 2
                             /\ UNCHANGED <<pc, err, decoded, packed_size, unpacked_size,
                                            ctl, count, offset, repititions, tok_dst,
                                            tok_n, tok_fed>>
              ELSE LET tmp == _rb(pakfile, fpos, 2)
                       p1 == tell(pakfile, fpos, 2)
                       look_behind_pos == tmp \div 16
                       nibble == tmp % 16
                       more == nibble = 15
                       reps == (IF more THEN nibble + _rb(pakfile, p1, 1) ELSE nibble) + 3
                   IN /\ fpos' = IF more THEN tell(pakfile, p1, 1) ELSE p1
                      /\ payload_reads' = payload_reads \o
                           (IF more
                              THEN <<[pos |-> fpos, count |-> 2], [pos |-> p1, count |-> 1]>>
                              ELSE <<[pos |-> fpos, count |-> 2]>>)
                      /\ remaining' = remaining - (IF more THEN 3 ELSE 2)
                      /\ repititions' = reps
                      /\ count' = reps
                      /\ offset' = look_behind_pos % d_capacity
                      /\ tok_dst' = dst
                      /\ tok_n' = reps
                      /\ tok_fed' = <<>>
                      /\ pc' = "copy"
                      /\ UNCHANGED <<err, decoded, packed_size, unpacked_size, m_output,
                                     buf, dst, ctl, bit>>
       ELSE /\ pc' = "outer"
            /\ UNCHANGED <<err, decoded, payload_reads, fpos, packed_size, unpacked_size,
                           m_output, buf, dst, remaining, ctl, bit, count, offset,
                           repititions, tok_dst, tok_n, tok_fed>>

\* the copy loop of a textbook LZSS: each copied byte enters the History buffer at once
decode_copy_textbook ==
  /\ pc = "copy"
  /\ call_unchanged
  /\ UNCHANGED <<outdir, allocated, payload_reads>>
  /\ IF count # 0 /\ ~(dst > unpacked_size)
       THEN IF buf.d = <<>>
              THEN finish("TypeError", "TypeError", -1)
            ELSE IF dst >= m_output.size
              THEN finish("IndexError", "IndexError", dst)
            ELSE /\ m_output' = setitem(m_output, dst, buf.d[offset + 1])
                 /\ buf' = LzssBuffer_input(buf, buf.d[offset + 1])
                 /\ offset' = (offset + 1) % d_capacity
                 /\ dst' = dst + 1
                 /\ count' = count - 1
                 /\ UNCHANGED <<pc, err, decoded, fpos, packed_size, unpacked_size,
                                remaining, ctl, bit, repititions, tok_dst, tok_n, tok_fed>>
       ELSE /\ pc' = "feed"
            /\ UNCHANGED <<err, decoded, fpos, packed_size, unpacked_size, m_output, buf,
                           dst, remaining, ctl, bit, count, offset, repititions, tok_dst,
                           tok_n, tok_fed>>

\* lines 165-173: one iteration of the copy loop
decode_copy ==
  /\ pc = "copy"
  /\ call_unchanged
  /\ UNCHANGED <<outdir, allocated, payload_reads>>
  /\ IF count # 0 /\ ~copy_guard(dst, unpacked_size)
       THEN IF buf.d = <<>>
              THEN finish("TypeError", "TypeError", -1)
            ELSE IF dst >= m_output.size
              THEN finish("IndexError", "IndexError", dst)
            ELSE /\ m_output' = setitem(m_output, dst, buf.d[offset + 1])
                 /\ offset' = (offset + 1) % d_capacity
                 /\ dst' = dst + 1
                 /\ count' = count - 1
                 /\ UNCHANGED <<pc, err, decoded, fpos, packed_size, unpacked_size, buf,
                                remaining, ctl, bit, repititions, tok_dst, tok_n, tok_fed>>
       ELSE /\ pc' = "feed"
            /\ UNCHANGED <<err, decoded, fpos, packed_size, unpacked_size, m_output, buf,
                           dst, remaining, ctl, bit, count, offset, repititions, tok_dst,
                           tok_n, tok_fed>>

\* lines 174-178: one iteration of the feed loop, then the next bit
decode_feed ==
  /\ pc = "feed"
  /\ call_unchanged
  /\ UNCHANGED <<outdir, allocated, payload_reads>>
  /\ IF repititions # 0
       THEN LET i == feed_index(dst, repititions)
                k == IF i < 0 THEN i + m_output.size ELSE i
            IN IF k < 0 \/ k >= m_output.size
                 THEN finish("IndexError", "IndexError", i)
                 ELSE /\ buf' = LzssBuffer_input(buf, getitem(m_output, k))
                      /\ repititions' = repititions - 1
                      /\ tok_fed' = Append(tok_fed, k)
                      /\ UNCHANGED <<pc, err, decoded, fpos, packed_size, unpacked_size,
                                     m_output, dst, remaining, ctl, bit, count, offset,
                                     tok_dst, tok_n>>
       ELSE /\ bit' = bit * 2
            /\ pc' = "inner"
            /\ UNCHANGED <<err, decoded, fpos, packed_size, unpacked_size, m_output, buf,
                           dst, remaining, ctl, count, offset, repititions, tok_dst,
                           tok_n, tok_fed>>

---------------------------------------------------------------------------
(* Leafpak: the calls *)

\* the toc_earlier and toc_parsed left by one more access that went "how"
toc_noted(earlier, last, how) ==
  [earlier |-> earlier \/ last = "parsed", last |-> how]

\* the file names the calls are made with
NameA == <<97>>
NameB == <<98>>
Name16 == [i \in 1..16 |-> 98]
NameU == <<233>>
FileNames == {NameA, NameB, Name16}

\* the property Leafpak.toc, read by a caller (main's list and count)
toc ==
  /\ pc = "idle"
  /\ LET a == toc_access(pakfile, _toc)
         n == toc_noted(toc_earlier, toc_parsed, a.how)
     IN /\ _toc' = a.toc
        /\ toc_records' = IF a.how = "parsed" THEN a.records ELSE toc_records
        /\ toc_earlier' = n.earlier
        /\ toc_parsed' = n.last
  /\ op' = "toc"
  /\ filename' = <<>> /\ input_files' = empty_dict
  /\ payload_reads' = <<>> /\ allocated' = -1
  /\ finish("none", "", -1)
  /\ UNCHANGED <<pakfile, outdir>>

\* extract_file(filename): lines 93-114, up to the call of Lzss.decode
extract_file ==
  /\ pc = "idle"
  /\ \E name \in FileNames :
       LET a1 == toc_access(pakfile, _toc)
           n1 == toc_noted(toc_earlier, toc_parsed, a1.how)
           a2 == toc_access(pakfile, a1.toc)
           n2 == toc_noted(n1.earlier, n1.last, a2.how)
           a3 == toc_access(pakfile, a2.toc)
           n3 == toc_noted(n2.earlier, n2.last, a3.how)
       IN /\ filename' = name
          /\ op' = "extract"
          /\ input_files' = empty_dict
                  /\ allocated' = -1
          /\ UNCHANGED pakfile
          /\ toc_records' = IF a1.how = "parsed" THEN a1.records ELSE toc_records
          /\ IF name \notin DOMAIN a1.toc
               THEN /\ _toc' = a1.toc
                    /\ toc_earlier' = n1.earlier /\ toc_parsed' = n1.last
                    /\ payload_reads' = <<>>
                    /\ finish("KeyError", "", -1)
                    /\ UNCHANGED outdir
             ELSE IF a2.toc[name].size = 0
               THEN /\ _toc' = a2.toc
                    /\ toc_earlier' = n2.earlier /\ toc_parsed' = n2.last
                    /\ payload_reads' = <<>>
                    /\ finish("none", "", -1)
                    /\ UNCHANGED outdir
             ELSE IF a3.toc[name].encoded
               THEN /\ _toc' = a3.toc
                    /\ toc_earlier' = n3.earlier /\ toc_parsed' = n3.last
                    /\ payload_reads' = <<>>
                    /\ pc' = "decode" /\ err' = "none"
                    /\ decoded' = [how |-> "", at |-> -1]
                    /\ fpos' = a1.toc[name].offset
                    /\ packed_size' = 0 /\ unpacked_size' = 0 /\ m_output' = bytearray(0)
                    /\ buf' = LzssBuffer /\ dst' = 0 /\ remaining' = 0 /\ ctl' = 0
                    /\ bit' = 0 /\ count' = 0 /\ offset' = 0 /\ repititions' = 0
                    /\ tok_dst' = 0 /\ tok_n' = 0 /\ tok_fed' = <<>>
                    /\ UNCHANGED outdir
             ELSE LET e == [offset |-> a1.toc[name].offset, size |-> a2.toc[name].size]
                  IN /\ _toc' = a3.toc
                     /\ toc_earlier' = n3.earlier /\ toc_parsed' = n3.last
                     /\ payload_reads' = <<[pos |-> e.offset, count |-> e.size]>>
                     /\ outdir' = dict_set(outdir, name, read(pakfile, e.offset, e.size))
                     /\ finish("none", "", -1)

\* lines 106-108: Lzss.decode has returned, the decoded file is written
extract_write ==
  /\ pc = "write"
  /\ outdir' = dict_set(outdir, filename, bytes(m_output))
  /\ finish("none", "returned", -1)
  /\ call_unchanged
  /\ UNCHANGED <<payload_reads, allocated>>

\* the content of the input file called name, of the given size
file_data(name, size) == [i \in 1..size |-> (Head(name) % 100) + i]

\* the input directories: at most MaxFiles files, each empty or MaxFileLen long
Directories ==
  LET NamePool == {NameA, Name16, NameU}
      Listings == {S \in SUBSET NamePool : Cardinality(S) <= MaxFiles}
  IN UNION {{[n \in S |-> file_data(n, sizes[n])] : sizes \in [S -> {0, MaxFileLen}]} :
              S \in Listings}

\* create_file(filename, input_directory): lines 59-90
create_file ==
  /\ pc = "idle"
  /\ \E dir \in Directories :
       LET r == create_file_run(pakfile, dir)
       IN /\ pakfile' = r.f
          /\ input_files' = dir
          /\ finish(r.err, "", -1)
  /\ op' = "create"
  /\ filename' = <<>>
  /\ payload_reads' = <<>> /\ allocated' = -1
  /\ UNCHANGED <<_toc, outdir, toc_parsed, toc_earlier, toc_records>>

---------------------------------------------------------------------------
(* The containers the handle is opened on *)

RECURSIVE concat(_)
\* the concatenation of a sequence of byte strings
concat(ss) == IF ss = <<>> THEN <<>> ELSE Head(ss) \o concat(Tail(ss))

\* a TOC record: name[16], size, encoded, offset
toc_record(name, size, encoded, off) ==
  ljust(encode_ascii(name), 16) \o to_bytes(size, 4) \o to_bytes(encoded, 4)
    \o to_bytes(off, 4)

\* a container: the count, 2 reserved bytes, the records, the payloads
container(n, records, payload) ==
  to_bytes(n, 2) \o <<0, 0>> \o concat(records) \o payload

\* an encoded payload: packed_size, unpacked_size, the compressed body
lzss_payload(packed, unpacked, body) ==
  to_bytes(packed, 4) \o to_bytes(unpacked, 4) \o body

\* two literals (65, 16), then a back-reference to position 1 of length 3
SampleBody == <<3, 65, 16, 16, 0>>
SamplePayload == lzss_payload(8 + Len(SampleBody), 5, SampleBody)

\* containers of up to MaxRecords records over SamplePayload, declaring any count up
\* to MaxRecords + 1: names and offsets may repeat, a size may pass the end of the file
ReadContainers ==
  LET Shapes == [name : {NameA, NameB}, size : {0, 2}, encoded : {0, 1}, delta : {0, 12}]
      rec(k, sh) == toc_record(sh.name, sh.size, sh.encoded,
                               entry_offset + (entry_size * k) + sh.delta)
  IN UNION {{container(n, [i \in 1..k |-> rec(k, shs[i])], SamplePayload) :
               n \in 0..(MaxRecords + 1), shs \in [1..k -> Shapes]} :
              k \in 0..MaxRecords}

\* the bytes the generated compressed bodies are made of
Alphabet == {0, 3, 16, 65}

\* containers of one encoded entry "a" whose payload is any body of up to MaxBody bytes
\* declaring any unpacked_size up to MaxUnpacked, or one of a few longer payloads
DecodeContainers ==
  LET Bodies == UNION {[1..k -> Alphabet] : k \in 0..MaxBody}
      Generated == {lzss_payload(8 + Len(b), u, b) : b \in Bodies, u \in 0..MaxUnpacked}
      Longer == {SamplePayload,
                 lzss_payload(10, ceiling + 1, <<1, 65>>),
                 lzss_payload(8, ceiling + 1, <<>>),
                 lzss_payload(13, 19, <<1, 65, 15, 0, 0>>)}
  IN {container(2, <<toc_record(NameA, 1, 1, 32)>>, p) : p \in Generated \cup Longer}

\* the containers create_file is run over
CreateContainers ==
  {container(1, <<>>, <<>>),
   container(3, <<toc_record(NameA, 2, 0, 60), toc_record(NameB, 1, 1, 63)>>,
             <<7, 8, 9>> \o SamplePayload)}

\* the output directory holds a file "a" before the first call
OldOut == [n \in {NameA} |-> <<79, 76, 68>>]

\* a fresh Leafpak(filename) on the container pak
InitOn(pak) ==
  /\ pakfile = pak
  /\ _toc = empty_dict
  /\ outdir = OldOut
  /\ pc = "idle" /\ op = "none" /\ err = "none"
  /\ filename = <<>> /\ input_files = empty_dict
  /\ toc_parsed = "" /\ toc_earlier = FALSE /\ toc_records = <<>>
  /\ payload_reads = <<>> /\ allocated = -1
  /\ decoded = [how |-> "", at |-> -1]
  /\ fpos = 0 /\ packed_size = 0 /\ unpacked_size = 0 /\ m_output = bytearray(0)
  /\ buf = LzssBuffer /\ dst = 0 /\ remaining = 0 /\ ctl = 0 /\ bit = 0
  /\ count = 0 /\ offset = 0 /\ repititions = 0 /\ tok_dst = 0 /\ tok_n = 0 /\ tok_fed = <<>>

Init == \E pak \in CreateContainers : InitOn(pak)
InitRead == \E pak \in ReadContainers : InitOn(pak)
InitDecode == \E pak \in DecodeContainers : InitOn(pak)

NextRead ==
  \/ toc
  \/ extract_file
  \/ decode_header
  \/ decode_check
  \/ decode_outer
  \/ decode_inner
  \/ decode_copy
  \/ decode_feed
  \/ extract_write

NextCreate ==
  \/ toc
  \/ create_file

Next ==
  \/ NextRead
  \/ create_file

\* create, list and extract on one handle
Spec == Init /\ [][Next]_vars
\* create and list on one handle
SpecCreate == Init /\ [][NextCreate]_vars
\* list and extract on one handle, over well-formed and malformed containers
SpecRead == InitRead /\ [][NextRead]_vars
\* extraction of one encoded entry, over the generated payloads
SpecDecode == InitDecode /\ [][NextRead]_vars

---------------------------------------------------------------------------
(* Properties *)

RECURSIVE total_size(_)
\* the sum of the sizes of the files of a directory
total_size(dir) ==
  IF DOMAIN dir = {} THEN 0
  ELSE LET n == CHOOSE x \in DOMAIN dir : TRUE
       IN Len(dir[n]) + total_size([m \in DOMAIN dir \ {n} |-> dir[m]])

\* field k (0: size, 1: encoded, 2: offset) of the i-th 28-byte record of the file f
record_field(f, i, k) == from_bytes(SubSeq(f, 4 + 28 * (i - 1) + 16 + 4 * k + 1,
                                               4 + 28 * (i - 1) + 16 + 4 * k + 4))

\* the name of the i-th record of the file f, without its padding
record_name(f, i) == rstrip(SubSeq(f, 4 + 28 * (i - 1) + 1, 4 + 28 * (i - 1) + 16))

\* whether every name of the directory is at most 16 ASCII bytes
names_fit(dir) == \A n \in DOMAIN dir : Len(n) <= 16 /\ is_ascii(n)

C2_ParseCount ==
  (op = "toc" /\ pc = "idle" /\ toc_parsed = "parsed") =>
    LET N == pakfile[1] + 256 * pakfile[2]
    IN /\ Len(toc_records) = (IF N > 1 THEN N - 1 ELSE 0)
       /\ toc_records # <<>> => toc_records[1].pos = 4
       /\ Cardinality(DOMAIN _toc) = Len(toc_records)
       /\ \A i \in 1..Len(toc_records) :
            /\ toc_records[i].filename \in DOMAIN _toc
            /\ _toc[toc_records[i].filename] = toc_records[i].entry

\* C3: extract_file of a name of the TOC takes one of three paths: size 0, no payload
\* read and no output written, encoded or not; else encoded, the decoder runs from the
\* entry's offset and what it returns is written; else exactly size bytes, those of the
\* container from offset on, are written.
C3_ExtractPaths ==
  [][(pc' = "idle" /\ op' = "extract" /\ filename' \in DOMAIN _toc') =>
       LET e == _toc'[filename']
           name == filename'
       IN IF e.size = 0
            THEN payload_reads' = <<>> /\ outdir' = outdir /\ decoded'.how = ""
          ELSE IF e.encoded
            THEN /\ decoded'.how # ""
                 /\ payload_reads'[1].pos = e.offset
                 /\ decoded'.how = "returned" =>
                      outdir' = dict_set(outdir, name, bytes(m_output))
                 /\ decoded'.how # "returned" => outdir' = outdir
          ELSE /\ decoded'.how = ""
               /\ payload_reads' = <<[pos |-> e.offset, count |-> e.size]>>
               /\ name \in DOMAIN outdir'
               /\ Len(outdir'[name]) = e.size
               /\ \A i \in 1..Len(outdir'[name]) :
                    /\ e.offset + i <= Len(pakfile)
                    /\ outdir'[name][i] = pakfile[e.offset + i]]_vars

\* the declared sizes of the payload the last extract_file decoded
declared_packed == _rb(pakfile, _toc[filename].offset, 4)
declared_unpacked == _rb(pakfile, _toc[filename].offset + 4, 4)

\* whether the last call ran Lzss.decode to its end
decode_ended == pc = "idle" /\ op = "extract" /\ decoded.how # ""

\* C4: a payload whose declared unpacked_size is above the ceiling always fails as
\* oversized, and no output buffer of unpacked_size bytes is allocated before that.
C4_OversizedUnallocated ==
  /\ (pc \notin {"idle", "decode"} /\ unpacked_size > ceiling) =>
       m_output.size < unpacked_size
  /\ (decode_ended /\ declared_unpacked > ceiling) =>
       (decoded.how = "OversizedPayload" /\ allocated = -1)

\* C5: while a back-reference is copied the History buffer stays as it is; then the
\* bytes output[p .. p+n-1] are fed to it, in increasing order, each read back from the
\* output (p the write position when the token was read, n its repetition count); a
\* literal is fed at once, one History write per literal.
C5_FeedFromOutput ==
  [][/\ (pc = "copy" /\ pc' # "idle") => buf' = buf
     /\ (pc = "copy" /\ pc' = "feed") => (dst = tok_dst + tok_n /\ tok_fed = <<>>)
     /\ (pc = "feed" /\ pc' = "feed") =>
          LET j == Len(tok_fed)
          IN /\ tok_fed' = Append(tok_fed, tok_dst + j)
             /\ j < tok_n
             /\ m_output' = m_output
             /\ buf'.d = [buf.d EXCEPT ![buf.d_pos + 1] = getitem(m_output, tok_dst + j)]
             /\ buf'.d_pos = (buf.d_pos + 1) % d_capacity
     /\ (pc = "feed" /\ pc' = "inner") => tok_fed = [i \in 1..tok_n |-> tok_dst + i - 1]
     /\ (pc = "inner" /\ pc' = "inner") =>
          /\ dst' = dst + 1
          /\ buf'.d[buf.d_pos + 1] = getitem(m_output', dst)
          /\ buf'.d_pos = (buf.d_pos + 1) % d_capacity
          /\ \A i \in 1..d_capacity :
               (i # buf.d_pos + 1 /\ buf.d # <<>>) => buf'.d[i] = buf.d[i]]_vars

\* C5's case: a back-reference has been copied and fed, and the bytes it fed are not
\* the ones a feed during the copy would have left in the History buffer
C5_Witness ==
  /\ pc = "feed" /\ repititions = 0
  /\ tok_dst = 2 /\ tok_n = 3 /\ Len(tok_fed) = 3
  /\ bytes(m_output) = <<65, 16, 16, 65, 65>>
  /\ SubSeq(buf.d, 1, 5) = <<65, 16, 16, 65, 65>>

\* C6: a read of the History buffer never raises, written or not: a back-reference
\* that is the first token of a stream copies zero bytes to the output.
C6_HistoryReadTotal == decoded.how # "TypeError"

\* whether two records of the last parse, both inside the file, carry the same name
duplicate_names ==
  \E i, j \in 1..Len(toc_records) :
    /\ i < j
    /\ toc_records[i].filename = toc_records[j].filename
    /\ toc_records[j].pos + 28 <= Len(pakfile)

\* C7: the parse of a container in which two records carry the same name fails with
\* DuplicateName, and returns no mapping that lacks one of the two.
C7_DuplicateNameFails ==
  (op = "toc" /\ pc = "idle" /\ toc_parsed = "parsed" /\ duplicate_names) =>
    err = "DuplicateName"

\* C8: the container is parsed on the first toc access only, whatever it holds: no
\* access after one that parsed opens the file again.
C8_ParsedOnce == ~(toc_earlier /\ toc_parsed = "parsed")

\* C9: a call that ends with an error, or is still running, leaves the files that were
\* there as they were: the container for create_file, the output for extract_file.
C9_AbortKeepsFiles ==
  [][(pc' # "idle" \/ err' # "none") => (pakfile' = pakfile /\ outdir' = outdir)]_vars

RECURSIVE tokens_total(_, _, _, _, _)
\* the number of bytes the tokens of a stream produce, from position pos of f with rem
\* bytes left, in the control byte c at bit b (b = 256: a control byte comes next)
tokens_total(f, pos, rem, c, b) ==
  IF rem <= 0 THEN 0
  ELSE IF b = 256 THEN tokens_total(f, tell(f, pos, 1), rem - 1, _rb(f, pos, 1), 1)
  ELSE IF bit_set(c, b) THEN 1 + tokens_total(f, tell(f, pos, 1), rem - 1, c, b * 2)
  ELSE LET tmp == _rb(f, pos, 2)
           p1 == tell(f, pos, 2)
           more == tmp % 16 = 15
           n == (IF more THEN 15 + _rb(f, p1, 1) ELSE tmp % 16) + 3
       IN n + tokens_total(f, IF more THEN tell(f, p1, 1) ELSE p1,
                           rem - (IF more THEN 3 ELSE 2), c, b * 2)

\* C10: dst stays within 0..unpacked_size, so the guard of the copy loop is never
\* true; a stream whose tokens produce more than unpacked_size bytes ends in an
\* out-of-range write at index unpacked_size, and returns nothing.
C10_DstBounded ==
  /\ pc \notin {"idle", "decode"} => (0 <= dst /\ dst <= unpacked_size)
  /\ pc = "copy" => ~copy_guard(dst, unpacked_size)
  /\ (/\ decode_ended
      /\ decoded.how \notin {"InvalidPayload", "OversizedPayload"}
      /\ tokens_total(pakfile, _toc[filename].offset + 8, declared_packed - 8, 0, 256)
           > declared_unpacked) =>
       decoded = [how |-> "IndexError", at |-> declared_unpacked]

====
